---- MODULE Spec2Model ----
(***************************************************************************)
(* Model of agents/validator.py: ValidatorAgent.normalize, validate_schema *)
(* (default schema), validate_dates, validate_business_rules,              *)
(* validate_custom_rules, run_data and handle_message.                     *)
(*                                                                         *)
(* JSON/Python values are records [t |-> tag, v |-> payload]:              *)
(*   absent (key not in the dict), null (None), int, float, str (a         *)
(*   sequence of one-character strings), list (a sequence of values),      *)
(*   dict (a record of values; a missing key holds Absent).                *)
(* Numbers are integer valued: every float of the model is exactly         *)
(* representable, so Python's float ==, *, + and / agree with integer      *)
(* arithmetic on them.                                                     *)
(***************************************************************************)
EXTENDS Integers, Sequences, FiniteSets, TLC

VARIABLES
    data,        \* the caller's candidate invoice object (a dict; normalize aliases its line items)
    today,       \* datetime.now().date() as <<year, month, day>>
    op,          \* the last top-level call: "none", "normalize", "run_data", "handle_message"
    message,     \* the request envelope of the last handle_message call
    calls,       \* the methods the last top-level call invoked, in order
    raised,      \* the exception that left the last top-level call, or "none"
    normalized,  \* the value normalize returned to the last direct normalize call
    verdict,     \* the Verdict of the last run_data call that returned
    response     \* the envelope the last handle_message call returned

vars == <<data, today, op, message, calls, raised, normalized, verdict, response>>

----------------------------------------------------------------------------
(* Bounds of the model *)

\* largest number of line items of a candidate invoice
MaxItems == 2

\* a candidate differs from the reference invoice in at most this many places
MaxEdits == 2

----------------------------------------------------------------------------
(* Values *)

Absent == [t |-> "absent", v |-> 0]
Null == [t |-> "null", v |-> 0]
IntV(n) == [t |-> "int", v |-> n]
FloatV(n) == [t |-> "float", v |-> n]
StrV(s) == [t |-> "str", v |-> s]
ListV(s) == [t |-> "list", v |-> s]
DictV(d) == [t |-> "dict", v |-> d]

None == [t |-> "none", v |-> 0]

Digits == <<"0", "1", "2", "3", "4", "5", "6", "7", "8", "9">>

IsDigit(c) == \E i \in 1..10 : Digits[i] = c

DigitVal(c) == (CHOOSE i \in 1..10 : Digits[i] = c) - 1

\* the decimal value of a non-empty sequence of digits
RECURSIVE DigitsVal(_)
DigitsVal(s) ==
    IF s = <<>> THEN 0
    ELSE 10 * DigitsVal(SubSeq(s, 1, Len(s) - 1)) + DigitVal(s[Len(s)])

AllDigits(s) == \A i \in 1..Len(s) : IsDigit(s[i])

\* the decimal digits of a natural number
RECURSIVE NatChars(_)
NatChars(n) ==
    IF n < 10 THEN <<Digits[n + 1]>>
    ELSE NatChars(n \div 10) \o <<Digits[(n % 10) + 1]>>

\* left-pad a digit string with zeros to width w
RECURSIVE ZFill(_, _)
ZFill(s, w) == IF Len(s) >= w THEN s ELSE ZFill(<<"0">> \o s, w)

\* str.strip(): drop leading and trailing whitespace
RECURSIVE Strip(_)
Strip(s) ==
    IF s = <<>> THEN s
    ELSE IF s[1] = " " THEN Strip(Tail(s))
    ELSE IF s[Len(s)] = " " THEN Strip(SubSeq(s, 1, Len(s) - 1))
    ELSE s

\* str.replace(a, b) for one-character a and b
Replace(s, a, b) == [i \in 1..Len(s) |-> IF s[i] = a THEN b ELSE s[i]]

\* str.startswith
StartsWith(s, p) == Len(s) >= Len(p) /\ SubSeq(s, 1, Len(p)) = p

\* str(x)
StrOf(x) ==
    CASE x.t = "str" -> x.v
      [] x.t = "int" -> IF x.v < 0 THEN <<"-">> \o NatChars(0 - x.v) ELSE NatChars(x.v)
      [] x.t = "float" -> (IF x.v < 0 THEN <<"-">> \o NatChars(0 - x.v) ELSE NatChars(x.v))
                          \o <<".", "0">>
      [] OTHER -> <<"N", "o", "n", "e">>

\* bool(x): Python truthiness
Truthy(x) ==
    CASE x.t \in {"absent", "null"} -> FALSE
      [] x.t \in {"int", "float"} -> x.v # 0
      [] x.t = "str" -> x.v # <<>>
      [] x.t = "list" -> Len(x.v) > 0
      [] x.t = "dict" -> \E f \in DOMAIN x.v : x.v[f].t # "absent"
      [] OTHER -> TRUE

\* float(x): [err |-> "none", val |-> the float] or the exception float() raises
Float(x) ==
    CASE x.t = "float" -> [err |-> "none", val |-> x]
      [] x.t = "int" -> [err |-> "none", val |-> FloatV(x.v)]
      [] x.t = "str" ->
            LET s == Strip(x.v)
                neg == s # <<>> /\ s[1] = "-"
                body == IF s # <<>> /\ s[1] \in {"-", "+"} THEN Tail(s) ELSE s
            IN IF body # <<>> /\ AllDigits(body)
               THEN [err |-> "none",
                     val |-> FloatV(IF neg THEN 0 - DigitsVal(body) ELSE DigitsVal(body))]
               ELSE [err |-> "ValueError", val |-> x]
      [] OTHER -> [err |-> "TypeError", val |-> x]

----------------------------------------------------------------------------
(* Calendar dates *)

IsLeap(y) == (y % 4 = 0 /\ y % 100 # 0) \/ y % 400 = 0

DaysInMonth(y, m) ==
    IF m = 2 THEN (IF IsLeap(y) THEN 29 ELSE 28)
    ELSE IF m \in {4, 6, 9, 11} THEN 30 ELSE 31

\* datetime.fromisoformat on a YYYY-MM-DD string: [ok, d |-> <<y, m, d>>]
FromIsoFormat(s) ==
    IF /\ Len(s) = 10
       /\ s[5] = "-" /\ s[8] = "-"
       /\ \A i \in {1, 2, 3, 4, 6, 7, 9, 10} : IsDigit(s[i])
    THEN LET y == DigitsVal(SubSeq(s, 1, 4))
             m == DigitsVal(SubSeq(s, 6, 7))
             d == DigitsVal(SubSeq(s, 9, 10))
         IN IF y >= 1 /\ m \in 1..12 /\ d >= 1 /\ d <= DaysInMonth(y, m)
            THEN [ok |-> TRUE, d |-> <<y, m, d>>]
            ELSE [ok |-> FALSE, d |-> <<0, 0, 0>>]
    ELSE [ok |-> FALSE, d |-> <<0, 0, 0>>]

\* date.strftime("%Y-%m-%d")
StrfTime(d) ==
    ZFill(NatChars(d[1]), 4) \o <<"-">> \o ZFill(NatChars(d[2]), 2) \o <<"-">> \o ZFill(NatChars(d[3]), 2)

\* d1 >= d2 on dates
DateAfterOrEqual(d1, d2) ==
    \/ d1[1] > d2[1]
    \/ d1[1] = d2[1] /\ d1[2] > d2[2]
    \/ d1[1] = d2[1] /\ d1[2] = d2[2] /\ d1[3] >= d2[3]

\* d1 > d2 on dates
DateAfter(d1, d2) ==
    \/ d1[1] > d2[1]
    \/ d1[1] = d2[1] /\ d1[2] > d2[2]
    \/ d1[1] = d2[1] /\ d1[2] = d2[2] /\ d1[3] > d2[3]

----------------------------------------------------------------------------
(* normalize *)

ItemNumFields == <<"quantity", "unit_price", "total">>

TopNumFields == <<"subtotal", "tax", "total">>

\* "for field in fields: if field in d: d[field] = float(d[field])" from
\* position k on: the dict as the loop leaves it and the exception that
\* stopped it, if any
RECURSIVE NormFields(_, _, _)
NormFields(d, fields, k) ==
    IF k > Len(fields) THEN [err |-> "none", d |-> d]
    ELSE IF d[fields[k]].t = "absent" THEN NormFields(d, fields, k + 1)
    ELSE LET r == Float(d[fields[k]])
         IN IF r.err # "none" THEN [err |-> r.err, d |-> d]
            ELSE NormFields([d EXCEPT ![fields[k]] = r.val], fields, k + 1)

\* the body of "for item in normalized['line_items']" for one item;
\* "field in item" raises TypeError on an item that is no container
\* ItemResult with the converted total stored in hundredths
ItemResultInCents(r) ==
    [err |-> r.err,
     item |-> DictV([r.d EXCEPT !.total = IF @.t = "float" THEN FloatV(100 * @.v) ELSE @])]

\* what the loop over the fields makes of one line item
ItemResult(r) == [err |-> r.err, item |-> DictV(r.d)]

NormItem(item) ==
    IF item.t # "dict" THEN [err |-> "TypeError", item |-> item]
    ELSE ItemResult(NormFields(item.v, ItemNumFields, 1))

\* the loop over the line items from position k on; the items are updated
\* in place, those before the one that raised stay converted
RECURSIVE NormItems(_, _)
NormItemsStep(items, k, r) ==
    IF r.err # "none" THEN [err |-> r.err, items |-> [items EXCEPT ![k] = r.item]]
    ELSE NormItems([items EXCEPT ![k] = r.item], k + 1)

NormItems(items, k) ==
    IF k > Len(items) THEN [err |-> "none", items |-> items]
    ELSE NormItemsStep(items, k, NormItem(items[k]))

\* the date step of normalize; a failed parse leaves the field as it is
NormDate(x) ==
    IF x.t = "absent" THEN x
    ELSE LET p == FromIsoFormat(Replace(StrOf(x), "/", "-"))
         IN IF p.ok THEN StrV(StrfTime(p.d)) ELSE x

\* the vendor step of normalize
NormVendor(x) == IF x.t = "str" THEN StrV(Strip(x.v)) ELSE x

\* the line-items step of normalize: the list object is shared between the
\* copy and the caller's dict (dict.copy() is shallow)
ListResult(r) == [err |-> r.err, val |-> ListV(r.items)]

NormLineItems(x) ==
    CASE x.t = "list" -> ListResult(NormItems(x.v, 1))
      [] x.t = "absent" -> [err |-> "none", val |-> x]
      [] OTHER -> [err |-> "TypeError", val |-> x]

\* normalize(d): err is the exception raised ("none" when it returns), value
\* the dict it returns, data the caller's dict after the call
NormalizeTop(d, li, top) ==
    LET after == [d EXCEPT !.line_items = li.val]
    IN IF li.err # "none" THEN [err |-> li.err, value |-> None, data |-> after]
       ELSE IF top.err # "none" THEN [err |-> top.err, value |-> None, data |-> after]
       ELSE [err |-> "none", value |-> top.d, data |-> after]

NormalizeItems(d, li) ==
    NormalizeTop(d, li,
                 NormFields([d EXCEPT !.date = NormDate(d.date),
                                      !.vendor = NormVendor(d.vendor),
                                      !.line_items = li.val],
                            TopNumFields, 1))

Normalize(d) == NormalizeItems(d, NormLineItems(d.line_items))

----------------------------------------------------------------------------
(* validate_schema with the default schema *)

Required == <<"invoice_number", "date", "vendor", "line_items", "subtotal", "tax", "total">>

ItemRequired == <<"description", "quantity", "unit_price", "total">>

NumberTypes == <<"number", "integer", "string">>

\* jsonschema's type check of one instance against a list of type names
IsType(x, types) ==
    \E i \in 1..Len(types) :
        \/ types[i] = "string" /\ x.t = "str"
        \/ types[i] = "number" /\ x.t \in {"int", "float"}
        \/ types[i] = "integer" /\ x.t = "int"
        \/ types[i] = "array" /\ x.t = "list"
        \/ types[i] = "object" /\ x.t = "dict"

\* the "type" keyword at a path: the errors it yields
TypeErrors(x, types, path) ==
    IF IsType(x, types) THEN <<>>
    ELSE <<[validator |-> "type", path |-> path, property |-> "", instance |-> x,
            types |-> types]>>

\* the "required" keyword: one error per missing property, in schema order
RECURSIVE RequiredErrors(_, _, _, _)
RequiredErrors(d, req, path, k) ==
    IF k > Len(req) THEN <<>>
    ELSE (IF d[req[k]].t = "absent"
          THEN <<[validator |-> "required", path |-> path, property |-> req[k],
                  instance |-> Absent, types |-> <<>>]>>
          ELSE <<>>) \o RequiredErrors(d, req, path, k + 1)

\* the "type" keyword under "properties" for the properties present
PropTypeErrors(d, f, types, path) ==
    IF d[f].t = "absent" THEN <<>> ELSE TypeErrors(d[f], types, Append(path, f))

\* the schema of one line item at index i (0-based in the path)
ItemErrors(item, i) ==
    LET path == <<"line_items", ToString(i - 1)>>
    IN IF item.t # "dict" THEN TypeErrors(item, <<"object">>, path)
       ELSE RequiredErrors(item.v, ItemRequired, path, 1)
            \o PropTypeErrors(item.v, "description", <<"string">>, path)
            \o PropTypeErrors(item.v, "quantity", NumberTypes, path)
            \o PropTypeErrors(item.v, "unit_price", NumberTypes, path)
            \o PropTypeErrors(item.v, "total", NumberTypes, path)

RECURSIVE ItemsErrors(_, _)
ItemsErrors(items, k) ==
    IF k > Len(items) THEN <<>> ELSE ItemErrors(items[k], k) \o ItemsErrors(items, k + 1)

\* the schema of the line_items property
LineItemsErrors(x) ==
    IF x.t = "absent" THEN <<>>
    ELSE IF x.t # "list" THEN TypeErrors(x, <<"array">>, <<"line_items">>)
    ELSE ItemsErrors(x.v, 1)

\* validate_schema(data): the list of errors Draft7Validator.iter_errors yields
ValidateSchema(d) ==
    RequiredErrors(d, Required, <<>>, 1)
    \o PropTypeErrors(d, "invoice_number", <<"string">>, <<>>)
    \o PropTypeErrors(d, "date", <<"string">>, <<>>)
    \o PropTypeErrors(d, "vendor", <<"string">>, <<>>)
    \o LineItemsErrors(d.line_items)
    \o PropTypeErrors(d, "subtotal", NumberTypes, <<>>)
    \o PropTypeErrors(d, "tax", NumberTypes, <<>>)
    \o PropTypeErrors(d, "total", NumberTypes, <<>>)

----------------------------------------------------------------------------
(* validate_dates *)

DateError(kind, x) == [kind |-> kind, date |-> x]

\* dict.get(key, default)
Get(d, f, default) == IF d[f].t = "absent" THEN default ELSE d[f]

\* validate_dates(data) with datetime.now().date() = now
ValidateDates(d, now) ==
    LET invoice_date == Get(d, "date", Null)
    IN IF ~Truthy(invoice_date) THEN <<DateError("missing", invoice_date)>>
       ELSE IF invoice_date.t # "str" THEN <<DateError("invalid_format", invoice_date)>>
       ELSE LET p == FromIsoFormat(Replace(invoice_date.v, "/", "-"))
            IN IF ~p.ok THEN <<DateError("invalid_format", invoice_date)>>
               ELSE IF DateAfter(p.d, now) THEN <<DateError("future", invoice_date)>>
               ELSE <<>>

----------------------------------------------------------------------------
(* validate_business_rules *)

BizError(kind, index, expected, got, detail) ==
    [kind |-> kind, index |-> index, expected |-> expected, got |-> got, detail |-> detail]

\* item[key] followed by float(): KeyError on a missing key, TypeError on an
\* item that cannot be subscripted
ItemFloat(item, f) ==
    IF item.t # "dict" THEN [err |-> "TypeError", val |-> item]
    ELSE IF item.v[f].t = "absent" THEN [err |-> "KeyError", val |-> item]
    ELSE Float(item.v[f])

\* the line-item loop leaving at the first mismatch
RECURSIVE LineItemChecksFirstOnly(_, _)
LineItemChecksFirstOnly(items, k) ==
    IF k > Len(items) THEN [err |-> "none", errs |-> <<>>]
    ELSE LET q == ItemFloat(items[k], "quantity")
             u == ItemFloat(items[k], "unit_price")
             t == ItemFloat(items[k], "total")
         IN IF q.err # "none" THEN [err |-> q.err, errs |-> <<>>]
            ELSE IF u.err # "none" THEN [err |-> u.err, errs |-> <<>>]
            ELSE IF t.err # "none" THEN [err |-> t.err, errs |-> <<>>]
            ELSE IF t.val.v # q.val.v * u.val.v
            THEN [err |-> "none",
                  errs |-> <<BizError("line_item", k - 1, q.val.v * u.val.v,
                                      items[k].v.total, "")>>]
            ELSE LineItemChecksFirstOnly(items, k + 1)

\* the line-item loop from position k on: the entries appended and the
\* exception that ended the loop, if any
RECURSIVE LineItemChecks(_, _)
LineItemChecks(items, k) ==
    IF k > Len(items) THEN [err |-> "none", errs |-> <<>>]
    ELSE LET q == ItemFloat(items[k], "quantity")
             u == ItemFloat(items[k], "unit_price")
             t == ItemFloat(items[k], "total")
         IN IF q.err # "none" THEN [err |-> q.err, errs |-> <<>>]
            ELSE IF u.err # "none" THEN [err |-> u.err, errs |-> <<>>]
            ELSE IF t.err # "none" THEN [err |-> t.err, errs |-> <<>>]
            ELSE LET expected_total == q.val.v * u.val.v
                     here == IF t.val.v # expected_total
                             THEN <<BizError("line_item", k - 1, expected_total,
                                             items[k].v.total, "")>>
                             ELSE <<>>
                     rest == LineItemChecks(items, k + 1)
                 IN [err |-> rest.err, errs |-> here \o rest.errs]

\* sum(float(item["total"]) for item in items) from position k on
RECURSIVE SumTotals(_, _)
SumTotals(items, k) ==
    IF k > Len(items) THEN [err |-> "none", val |-> 0]
    ELSE LET t == ItemFloat(items[k], "total")
             rest == SumTotals(items, k + 1)
         IN IF t.err # "none" THEN [err |-> t.err, val |-> 0]
            ELSE IF rest.err # "none" THEN rest
            ELSE [err |-> "none", val |-> t.val.v + rest.val]

\* the subtotal check
SubtotalCheck(d, items) ==
    LET s == SumTotals(items, 1)
        sub == Float(Get(d, "subtotal", IntV(0)))
    IN IF s.err # "none" THEN [err |-> s.err, errs |-> <<>>]
       ELSE IF sub.err # "none" THEN [err |-> sub.err, errs |-> <<>>]
       ELSE [err |-> "none",
             errs |-> IF sub.val.v # s.val
                      THEN <<BizError("subtotal", -1, s.val, Get(d, "subtotal", Null), "")>>
                      ELSE <<>>]

\* the total check
TotalCheck(d) ==
    LET sub == Float(Get(d, "subtotal", IntV(0)))
        tax == Float(Get(d, "tax", IntV(0)))
        tot == Float(Get(d, "total", IntV(0)))
    IN IF sub.err # "none" THEN [err |-> sub.err, errs |-> <<>>]
       ELSE IF tax.err # "none" THEN [err |-> tax.err, errs |-> <<>>]
       ELSE IF tot.err # "none" THEN [err |-> tot.err, errs |-> <<>>]
       ELSE [err |-> "none",
             errs |-> IF tot.val.v # sub.val.v + tax.val.v
                      THEN <<BizError("total", -1, sub.val.v + tax.val.v,
                                      Get(d, "total", Null), "")>>
                      ELSE <<>>]

\* validate_business_rules(data): an exception anywhere in the try block
\* appends one generic entry after the entries collected so far
ValidateBusinessRules(d) ==
    LET li == Get(d, "line_items", ListV(<<>>))
        generic(e) == <<BizError("error", -1, 0, Null, e)>>
    IN IF li.t # "list" THEN generic("TypeError")
       ELSE LET lines == LineItemChecks(li.v, 1)
                sub == SubtotalCheck(d, li.v)
                tot == TotalCheck(d)
            IN IF lines.err # "none" THEN lines.errs \o generic(lines.err)
               ELSE IF sub.err # "none" THEN lines.errs \o generic(sub.err)
               ELSE IF tot.err # "none" THEN lines.errs \o sub.errs \o generic(tot.err)
               ELSE lines.errs \o sub.errs \o tot.errs

----------------------------------------------------------------------------
(* validate_custom_rules *)

INV_PREFIX == <<"I", "N", "V", "-">>

CustomError(kind, bp, text) == [kind |-> kind, bp |-> bp, text |-> text]

\* Rule 1: vendor must not be empty
VendorRule(d) ==
    IF ~Truthy(Get(d, "vendor", Null)) THEN <<CustomError("vendor", 0, <<>>)>> ELSE <<>>

\* Rule 2 rejecting a tax of 20% and more
TaxRuleAtLeast(d) ==
    LET sub == Float(Get(d, "subtotal", IntV(0)))
        tax == Float(Get(d, "tax", IntV(0)))
    IN IF sub.err # "none" \/ tax.err # "none" THEN <<CustomError("tax_error", 0, <<>>)>>
       ELSE IF sub.val.v > 0 /\ 5 * tax.val.v >= sub.val.v
       THEN <<CustomError("tax_rate", (20000 * tax.val.v + sub.val.v) \div (2 * sub.val.v),
                          <<>>)>>
       ELSE <<>>

\* Rule 2: tax / subtotal > 0.2 when subtotal > 0; the entry carries the rate
\* in hundredths of a percent, as "{tax_rate:.2%}" prints it
TaxRule(d) ==
    LET sub == Float(Get(d, "subtotal", IntV(0)))
        tax == Float(Get(d, "tax", IntV(0)))
    IN IF sub.err # "none" \/ tax.err # "none" THEN <<CustomError("tax_error", 0, <<>>)>>
       ELSE IF sub.val.v > 0 /\ 5 * tax.val.v > sub.val.v
       THEN <<CustomError("tax_rate", (20000 * tax.val.v + sub.val.v) \div (2 * sub.val.v),
                          <<>>)>>
       ELSE <<>>

\* Rule 3: invoice number must start with 'INV-'
InvoiceNumberRule(d) ==
    LET invoice_number == StrOf(Get(d, "invoice_number", StrV(<<>>)))
    IN IF ~StartsWith(invoice_number, INV_PREFIX)
       THEN <<CustomError("invoice_number", 0, invoice_number)>>
       ELSE <<>>

\* validate_custom_rules(data)
ValidateCustomRules(d) == VendorRule(d) \o TaxRule(d) \o InvoiceNumberRule(d)

----------------------------------------------------------------------------
(* run_data *)

Verdict(status, valid, se, de, be, ce, nd) ==
    [status |-> status, valid |-> valid, schema_errors |-> se, date_errors |-> de,
     business_errors |-> be, custom_errors |-> ce, normalized_data |-> nd]

\* AccumulatingResult with valid and status decided by the custom rules alone
AccumulatingResultCustomOnly(nd, be, ce) ==
    [verdict |-> Verdict(IF ce = <<>> THEN "success" ELSE "failed", ce = <<>>,
                         <<>>, <<>>, be, ce, nd),
     calls |-> <<"validate_business_rules", "validate_custom_rules">>]

\* the result after stages 4 and 5: be and ce are what the business-rule and
\* the custom-rule stage returned
AccumulatingResult(nd, be, ce) ==
    LET ok == be = <<>> /\ ce = <<>>
    IN [verdict |-> Verdict(IF ok THEN "success" ELSE "failed", ok, <<>>, <<>>, be, ce, nd),
        calls |-> <<"validate_business_rules", "validate_custom_rules">>]

\* AccumulatingStages returning after a business-rule failure, before the
\* custom rules
AccumulatingStagesStopOnBusiness(nd) ==
    IF ValidateBusinessRules(nd) # <<>>
    THEN [verdict |-> Verdict("failed", FALSE, <<>>, <<>>, ValidateBusinessRules(nd), <<>>, nd),
          calls |-> <<"validate_business_rules">>]
    ELSE AccumulatingResult(nd, <<>>, ValidateCustomRules(nd))

\* stages 4 and 5 of run_data on the normalized record
AccumulatingStages(nd) ==
    AccumulatingResult(nd, ValidateBusinessRules(nd), ValidateCustomRules(nd))

\* the result r of the later stages, after the calls made before them
After(before, r) == [r EXCEPT !.calls = before \o @]

\* the result after the date stage returned de
DateStage(nd, de) ==
    IF de # <<>>
    THEN [verdict |-> Verdict("failed", FALSE, <<>>, de, <<>>, <<>>, nd),
          calls |-> <<"validate_dates">>]
    ELSE After(<<"validate_dates">>, AccumulatingStages(nd))

\* the verdict of the later stages with the schema errors added to it
WithSchemaErrors(r, se) ==
    [r EXCEPT !.verdict.schema_errors = se, !.verdict.valid = FALSE,
              !.verdict.status = "failed"]

\* SchemaStage without the early return on schema errors
SchemaStageContinues(nd, now, se) ==
    IF se # <<>>
    THEN WithSchemaErrors(After(<<"validate_schema">>, DateStage(nd, ValidateDates(nd, now))),
                          se)
    ELSE After(<<"validate_schema">>, DateStage(nd, ValidateDates(nd, now)))

\* the result after the schema stage returned se
SchemaStage(nd, now, se) ==
    IF se # <<>>
    THEN [verdict |-> Verdict("failed", FALSE, se, <<>>, <<>>, <<>>, nd),
          calls |-> <<"validate_schema">>]
    ELSE After(<<"validate_schema">>, DateStage(nd, ValidateDates(nd, now)))

\* stages 2 to 5 of run_data on the normalized record
Stages(nd, now) == SchemaStage(nd, now, ValidateSchema(nd))

\* what run_data returns: the caller's dict as normalize left it, and the
\* result st of the stages
Returned(n, st) ==
    [err |-> "none", verdict |-> st.verdict, data |-> n.data,
     calls |-> <<"run_data", "normalize">> \o st.calls]

\* run_data after normalize returned or raised n
RunDataNormalized(n, now) ==
    IF n.err # "none"
    THEN [err |-> n.err, verdict |-> None, data |-> n.data,
          calls |-> <<"run_data", "normalize">>]
    ELSE Returned(n, Stages(n.value, now))

\* run_data(d): err is the exception that leaves it ("none" when it returns),
\* verdict what it returns, data the caller's dict after the call, calls the
\* methods it invoked
RunDataOf(d, now) == RunDataNormalized(Normalize(d), now)

----------------------------------------------------------------------------
(* handle_message *)

VALIDATE_INVOICE ==
    <<"v", "a", "l", "i", "d", "a", "t", "e", ".", "i", "n", "v", "o", "i", "c", "e">>

RESP_PREFIX == <<"r", "e", "s", "p", "-">>

RESPONSE_SUFFIX == <<".", "r", "e", "s", "p", "o", "n", "s", "e">>

VALIDATOR_AGENT ==
    <<"v", "a", "l", "i", "d", "a", "t", "o", "r", "-", "a", "g", "e", "n", "t">>

UNKNOWN == <<"u", "n", "k", "n", "o", "w", "n">>

MISSING_PAYLOAD ==
    <<"M", "i", "s", "s", "i", "n", "g", " ", "i", "n", "v", "o", "i", "c", "e", " ", "p", "a", "y", "l", "o", "a", "d">>

UNSUPPORTED_TYPE ==
    <<"U", "n", "s", "u", "p", "p", "o", "r", "t", "e", "d", " ", "t", "y", "p", "e", " ">>

\* the invoice of a request body that is the caller's candidate object
Candidate == [t |-> "candidate", v |-> 0]

FailBody(text) == [status |-> "FAIL", error |-> text]

\* Envelope with sender and recipient exchanged
EnvelopeSwapped(msg_id, msg_type, sender, body) ==
    [id |-> RESP_PREFIX \o StrOf(msg_id), type |-> StrOf(msg_type) \o RESPONSE_SUFFIX,
     from |-> sender, to |-> VALIDATOR_AGENT, body |-> body]

\* the response envelope of handle_message
Envelope(msg_id, msg_type, sender, body) ==
    [id |-> RESP_PREFIX \o StrOf(msg_id), type |-> StrOf(msg_type) \o RESPONSE_SUFFIX,
     from |-> VALIDATOR_AGENT, to |-> sender, body |-> body]

\* the "validate.invoice" branch of handle_message; d is the caller's
\* candidate, which the body's invoice may refer to
\* handle_message after its run_data call returned or raised r
Wrap(msg_id, msg_type, sender, r) ==
    IF r.err # "none"
    THEN [err |-> r.err, response |-> None, data |-> r.data,
          calls |-> <<"handle_message">> \o r.calls]
    ELSE [err |-> "none", response |-> Envelope(msg_id, msg_type, sender, r.verdict),
          data |-> r.data, calls |-> <<"handle_message">> \o r.calls]

ValidateBranch(msg, msg_id, msg_type, sender, d, now) ==
    LET body == Get(msg, "body", DictV([invoice |-> Absent]))
        ref == Get(body.v, "invoice", Null)
        invoice == IF ref.t = "candidate" THEN DictV(d) ELSE ref
    IN IF body.t # "dict"
       THEN [err |-> "AttributeError", response |-> None, data |-> d,
             calls |-> <<"handle_message">>]
       ELSE IF ~Truthy(invoice)
       THEN [err |-> "none",
             response |-> Envelope(msg_id, msg_type, sender, FailBody(MISSING_PAYLOAD)),
             data |-> d, calls |-> <<"handle_message">>]
       ELSE Wrap(msg_id, msg_type, sender, RunDataOf(invoice.v, now))

\* handle_message(message); uuid is what str(uuid.uuid4()) returns
HandleMessageOf(msg, d, now, uuid) ==
    LET msg_type == Get(msg, "type", Null)
        msg_id == Get(msg, "id", StrV(uuid))
        sender == Get(msg, "from", StrV(UNKNOWN))
    IN IF msg_type.t = "str" /\ msg_type.v = VALIDATE_INVOICE
       THEN ValidateBranch(msg, msg_id, msg_type, sender, d, now)
       ELSE [err |-> "none",
             response |-> Envelope(msg_id, msg_type, sender,
                                   FailBody(UNSUPPORTED_TYPE \o StrOf(msg_type))),
             data |-> d, calls |-> <<"handle_message">>]

----------------------------------------------------------------------------
(* The candidate invoices and request envelopes the callers submit *)

RefItem ==
    DictV([description |-> StrV(<<"W">>), quantity |-> IntV(2), unit_price |-> IntV(5),
           total |-> IntV(10)])

\* the reference invoice with n line items: it passes every stage, with the
\* tax at exactly 20% of the subtotal
RefInvoice(n) ==
    [invoice_number |-> StrV(<<"I", "N", "V", "-", "1">>),
     date |-> StrV(<<"2", "0", "2", "4", "-", "0", "3", "-", "0", "1">>),
     vendor |-> StrV(<<"A", "c", "m", "e">>),
     line_items |-> ListV([i \in 1..n |-> RefItem]),
     subtotal |-> IntV(10 * n), tax |-> IntV(2 * n), total |-> IntV(12 * n)]

\* what a numeric field holding b may hold instead: text that is no number,
\* the same number as text, another number
NumAlts(b) == <<StrV(<<"x">>), StrV(NatChars(b)), IntV(b + 1)>>

Edit(item, field, val) == [item |-> item, field |-> field, val |-> val]

\* the edits that put each value of alts into one field
FieldEdits(item, field, alts) == [k \in 1..Len(alts) |-> Edit(item, field, alts[k])]

TopEdits(n) ==
    FieldEdits(0, "invoice_number", <<Absent, Null, StrV(<<"X", "-", "1">>)>>)
    \o FieldEdits(0, "date",
                  <<Absent, StrV(<<>>), StrV(<<"2", "0", "2", "4", "/", "0", "3", "/", "0", "2">>),
                    StrV(<<"2", "0", "2", "4", "-", "0", "2", "-", "3", "0">>)>>)
    \o FieldEdits(0, "vendor", <<Absent, StrV(<<>>), StrV(<<" ">>)>>)
    \o FieldEdits(0, "line_items", <<Absent, Null>>)
    \o FieldEdits(0, "subtotal", NumAlts(10 * n) \o <<IntV(-1)>>)
    \o FieldEdits(0, "tax", NumAlts(2 * n))
    \o FieldEdits(0, "total", NumAlts(12 * n))

ItemEdits(i) ==
    FieldEdits(i, "quantity", NumAlts(2))
    \o FieldEdits(i, "unit_price", NumAlts(5))
    \o FieldEdits(i, "total", NumAlts(10))
    \o <<Edit(i, "description", Absent), Edit(i, "", Null)>>

\* the edits of an invoice with n line items
RECURSIVE Edits(_, _)
Edits(n, i) == IF i > n THEN TopEdits(n) ELSE ItemEdits(i) \o Edits(n, i + 1)

\* the invoice d with one place changed
ApplyEdit(d, e) ==
    IF e.item = 0 THEN [d EXCEPT ![e.field] = e.val]
    ELSE IF d.line_items.t # "list" THEN d
    ELSE IF e.field = ""
    THEN [d EXCEPT !.line_items = ListV([d.line_items.v EXCEPT ![e.item] = e.val])]
    ELSE IF d.line_items.v[e.item].t # "dict" THEN d
    ELSE [d EXCEPT !.line_items =
            ListV([d.line_items.v EXCEPT
                     ![e.item] = DictV([d.line_items.v[e.item].v EXCEPT ![e.field] = e.val])])]

\* the invoice d with the edits E[pick[j]] applied for j = k, k+1, ...;
\* pick[j] = 0 applies nothing
RECURSIVE ApplyEdits(_, _, _, _)
ApplyEdits(d, E, pick, k) ==
    IF k > Len(pick) THEN d
    ELSE ApplyEdits(IF pick[k] = 0 THEN d ELSE ApplyEdit(d, E[pick[k]]), E, pick, k + 1)

\* the choices of at most m edits among the first a, each choice listed once
Picks(a, m) ==
    {pick \in [1..m -> 0..a] :
        \A j \in 1..(m - 1) : pick[j] = 0 \/ pick[j] < pick[j + 1]}

\* data is a candidate invoice: the reference invoice of some length with at
\* most m places changed
IsCandidate(d, m) ==
    \E n \in 0..MaxItems :
        \E pick \in Picks(Len(Edits(n, 1)), m) :
            d = ApplyEdits(RefInvoice(n), Edits(n, 1), pick, 1)

Days == {<<2024, 3, 1>>, <<2024, 3, 2>>}

Uuids == {<<"u", "1">>, <<"u", "2">>}

Header(type, id, from, body) == [type |-> type, id |-> id, from |-> from, body |-> body]

\* the dict {}: no key is present
EmptyDict == DictV([f \in {Required[k] : k \in 1..Len(Required)} |-> Absent])

\* no body, a null body, a body without invoice, with a null invoice, with an
\* empty invoice, with the candidate
Bodies ==
    {Absent, Null, DictV([invoice |-> Absent]), DictV([invoice |-> Null]),
     DictV([invoice |-> EmptyDict]), DictV([invoice |-> Candidate])}

Messages ==
    {Header(StrV(VALIDATE_INVOICE), h[1], h[2], b) :
        h \in {<<StrV(<<"m", "1">>), StrV(<<"o", "c", "r">>)>>, <<Absent, Absent>>},
        b \in Bodies}
    \cup {Header(t, h[1], h[2], Absent) :
            t \in {StrV(<<"p", "i", "n", "g">>), Absent},
            h \in {<<StrV(<<"m", "1">>), StrV(<<"o", "c", "r">>)>>, <<Absent, Absent>>}}

----------------------------------------------------------------------------
(* The state machine: callers invoke the agent's methods on the candidate *)

Init ==
    /\ IsCandidate(data, MaxEdits)
    /\ today \in Days
    /\ op = "none"
    /\ message = None
    /\ calls = <<>>
    /\ raised = "none"
    /\ normalized = None
    /\ verdict = None
    /\ response = None

\* a caller invokes normalize(data)
\* the state after a top-level call: what it left in the caller's dict, what
\* it raised or returned
Outcome(name, msg, r, n, v, resp) ==
    /\ op' = name
    /\ message' = msg
    /\ data' = r.data
    /\ raised' = r.err
    /\ calls' = r.calls
    /\ normalized' = n
    /\ verdict' = v
    /\ response' = resp
    /\ UNCHANGED today

NormalizeOutcome(n) ==
    Outcome("normalize", None, [data |-> n.data, err |-> n.err, calls |-> <<"normalize">>],
            n.value, None, None)

NormalizeCall == NormalizeOutcome(Normalize(data))

\* a caller invokes run_data(data)
RunDataOutcome(r) == Outcome("run_data", None, r, None, r.verdict, None)

RunDataCall == RunDataOutcome(RunDataOf(data, today))

\* a caller invokes handle_message(msg)
HandleMessageOutcome(msg, h) == Outcome("handle_message", msg, h, None, None, h.response)

HandleMessageCall ==
    \E msg \in Messages, uuid \in Uuids :
        HandleMessageOutcome(msg, HandleMessageOf(msg, data, today, uuid))

\* callers of the pipeline: normalize and run_data on the candidate
Next == NormalizeCall \/ RunDataCall

Spec == Init /\ [][Next]_vars

\* callers at the messaging boundary: the candidates within one change of
\* the reference invoice, submitted in request envelopes
MsgInit ==
    /\ IsCandidate(data, 1)
    /\ today \in Days
    /\ op = "none"
    /\ message = None
    /\ calls = <<>>
    /\ raised = "none"
    /\ normalized = None
    /\ verdict = None
    /\ response = None

MsgNext == HandleMessageCall

MsgSpec == MsgInit /\ [][MsgNext]_vars

----------------------------------------------------------------------------
(* Properties of run_data *)

\* the last call was run_data and it returned a Verdict
RunDataReturned == op = "run_data" /\ raised = "none"

\* x holds a value float() rejects
Uncoercible(x) == x.t # "absent" /\ Float(x).err # "none"

\* some numeric field of the invoice d or of one of its line items holds a
\* value that cannot be coerced to a number
HasUncoercible(d) ==
    \/ \E f \in {"subtotal", "tax", "total"} : Uncoercible(d[f])
    \/ /\ d.line_items.t = "list"
       /\ \E i \in 1..Len(d.line_items.v) :
            /\ d.line_items.v[i].t = "dict"
            /\ \E f \in {"quantity", "unit_price", "total"} :
                 Uncoercible(d.line_items.v[i].v[f])

\* C1: in every Verdict run_data returns, schema errors exclude date,
\* business and custom errors, and date errors exclude business and custom
\* errors
C1_ShortCircuit ==
    RunDataReturned =>
        /\ verdict.schema_errors # <<>> =>
              /\ verdict.date_errors = <<>>
              /\ verdict.business_errors = <<>>
              /\ verdict.custom_errors = <<>>
        /\ verdict.date_errors # <<>> =>
              /\ verdict.business_errors = <<>>
              /\ verdict.custom_errors = <<>>

\* a Verdict with schema errors for a record the custom rules would reject too
C1_Witness ==
    /\ RunDataReturned
    /\ verdict.schema_errors # <<>>
    /\ ValidateCustomRules(verdict.normalized_data) # <<>>

\* C2: in every Verdict run_data returns, valid is true iff the four error
\* lists are all empty, status is "success" exactly when valid and "failed"
\* exactly when not valid
C2_ValidIffNoErrors ==
    RunDataReturned =>
        /\ verdict.valid \in BOOLEAN
        /\ verdict.valid <=>
              /\ verdict.schema_errors = <<>>
              /\ verdict.date_errors = <<>>
              /\ verdict.business_errors = <<>>
              /\ verdict.custom_errors = <<>>
        /\ verdict.status = "success" <=> verdict.valid
        /\ verdict.status = "failed" <=> ~verdict.valid

\* a Verdict that fails on the business rules alone
C2_Witness ==
    /\ RunDataReturned
    /\ verdict.business_errors # <<>>
    /\ verdict.custom_errors = <<>>
    /\ ~verdict.valid

\* C3: run_data does not raise on a candidate with a numeric field that
\* cannot be coerced to a number: it returns a Verdict with normalized_data
\* set, valid false and the failure in one of the error lists
C3_CoercionFailureReported ==
    (op = "run_data" /\ HasUncoercible(data)) =>
        /\ raised = "none"
        /\ verdict.normalized_data # None
        /\ ~verdict.valid
        /\ \/ verdict.schema_errors # <<>>
           \/ verdict.date_errors # <<>>
           \/ verdict.business_errors # <<>>
           \/ verdict.custom_errors # <<>>

\* a value as the caller sees it: text, a number (int or float alike), null
\* or nothing
Seen(x) == IF x.t \in {"int", "float"} THEN [t |-> "number", v |-> x.v] ELSE x

\* a line item as the caller sees it
SeenItem(item) ==
    IF item.t = "dict" THEN DictV([f \in DOMAIN item.v |-> Seen(item.v[f])]) ELSE item

\* an invoice as the caller sees it
SeenInvoice(d) ==
    [f \in DOMAIN d |->
        IF f = "line_items" /\ d[f].t = "list"
        THEN ListV([i \in 1..Len(d[f].v) |-> SeenItem(d[f].v[i])])
        ELSE Seen(d[f])]

\* C4: a call to run_data or normalize leaves every field of the caller's
\* invoice and of its line items as it was, text staying text and numbers
\* staying numbers
C4_InputUnchanged == [][SeenInvoice(data') = SeenInvoice(data)]_vars

\* the line item of a normalized record whose total is not quantity * unit_price
Mismatch(item) == item.v.total.v # item.v.quantity.v * item.v.unit_price.v

\* the vendor of the caller's invoice is empty
VendorEmpty == data.vendor.t = "str" /\ Strip(data.vendor.v) = <<>>

\* C5: when the schema and date stages pass, a line item's total differs
\* from quantity * unit_price and the vendor is empty, the Verdict has both
\* business_errors and custom_errors non-empty
C5_BothAccumulate ==
    (/\ RunDataReturned
     /\ verdict.schema_errors = <<>>
     /\ verdict.date_errors = <<>>
     /\ \E i \in 1..Len(verdict.normalized_data.line_items.v) :
            Mismatch(verdict.normalized_data.line_items.v[i])
     /\ VendorEmpty)
    => /\ verdict.business_errors # <<>>
       /\ verdict.custom_errors # <<>>

\* a Verdict for a candidate with a wrong line total and an empty vendor
C5_Witness ==
    /\ RunDataReturned
    /\ verdict.schema_errors = <<>>
    /\ verdict.date_errors = <<>>
    /\ \E i \in 1..Len(verdict.normalized_data.line_items.v) :
           Mismatch(verdict.normalized_data.line_items.v[i])
    /\ VendorEmpty
    /\ verdict.custom_errors # <<>>

\* C6: run_data called again on the same candidate object, on the same day,
\* returns a Verdict identical to the one the first call returned
C6_SecondRunSameVerdict ==
    [][(RunDataReturned /\ op' = "run_data" /\ today' = today)
         => (raised' = "none" /\ verdict' = verdict)]_vars

\* run_data returned for a candidate whose amounts came as text with line items
C6_Witness ==
    /\ RunDataReturned
    /\ data.subtotal.t = "str"
    /\ data.line_items.t = "list" /\ Len(data.line_items.v) > 0
    /\ verdict.normalized_data.subtotal.t = "float"

\* the elements of a sequence
Range(s) == {s[i] : i \in 1..Len(s)}

\* the positions of the business-rule entries of one kind
BizEntries(kind) ==
    {j \in 1..Len(verdict.business_errors) : verdict.business_errors[j].kind = kind}

\* the positions of the line-item entries naming index i (0-based)
LineEntries(i) ==
    {j \in BizEntries("line_item") : verdict.business_errors[j].index = i}

\* C9: past the schema and date stages, business_errors holds exactly one
\* line-item entry, with the expected product and the actual total, for each
\* index whose total differs from quantity * unit_price and none for the
\* others; the subtotal and the total check follow, at most one entry each
C9_AllLineItemsChecked ==
    (RunDataReturned /\ verdict.schema_errors = <<>> /\ verdict.date_errors = <<>>) =>
        LET items == verdict.normalized_data.line_items.v
            be == verdict.business_errors
        IN /\ \A i \in 1..Len(items) :
                IF Mismatch(items[i])
                THEN /\ Cardinality(LineEntries(i - 1)) = 1
                     /\ \A j \in LineEntries(i - 1) :
                          /\ be[j].expected = items[i].v.quantity.v * items[i].v.unit_price.v
                          /\ be[j].got = items[i].v.total
                ELSE LineEntries(i - 1) = {}
           /\ \A j \in BizEntries("line_item") : be[j].index \in 0..(Len(items) - 1)
           /\ Cardinality(BizEntries("subtotal")) <= 1
           /\ Cardinality(BizEntries("total")) <= 1
           /\ \A j \in BizEntries("line_item"), k \in BizEntries("subtotal") : j < k
           /\ \A j \in BizEntries("line_item") \cup BizEntries("subtotal"),
                 k \in BizEntries("total") : j < k

\* a Verdict reporting mismatches at two line items
C9_Witness ==
    /\ RunDataReturned
    /\ verdict.schema_errors = <<>> /\ verdict.date_errors = <<>>
    /\ Cardinality(BizEntries("line_item")) >= 2

\* a date as one number, for comparing dates
DayNumber(d) == 10000 * d[1] + 100 * d[2] + d[3]

\* the candidate's date, '/' replaced by '-', parsed
ParsedDate == FromIsoFormat(Replace(data.date.v, "/", "-"))

\* the kinds of the date errors of the Verdict
DateKinds == [j \in 1..Len(verdict.date_errors) |-> verdict.date_errors[j].kind]

\* C10: past the schema stage the date stage yields at most one error:
\* missing for an empty date, invalid format for one that does not parse,
\* future for one later than today; otherwise none, and the business and
\* custom stages run
C10_DateStage ==
    (RunDataReturned /\ verdict.schema_errors = <<>>) =>
        /\ Len(verdict.date_errors) <= 1
        /\ data.date.v = <<>> => DateKinds = <<"missing">>
        /\ (data.date.v # <<>> /\ ~ParsedDate.ok) => DateKinds = <<"invalid_format">>
        /\ (ParsedDate.ok /\ DayNumber(ParsedDate.d) > DayNumber(today))
              => DateKinds = <<"future">>
        /\ (ParsedDate.ok /\ DayNumber(ParsedDate.d) <= DayNumber(today))
              => /\ verdict.date_errors = <<>>
                 /\ "validate_business_rules" \in Range(calls)
                 /\ "validate_custom_rules" \in Range(calls)

\* a candidate dated today went through the business and custom stages
C10_Witness ==
    /\ RunDataReturned
    /\ verdict.schema_errors = <<>>
    /\ ParsedDate.ok /\ ParsedDate.d = today
    /\ verdict.date_errors = <<>>
    /\ "validate_custom_rules" \in Range(calls)

\* the kinds of the custom-rule entries of the Verdict, in order
CustomKinds == [j \in 1..Len(verdict.custom_errors) |-> verdict.custom_errors[j].kind]

\* the caller's invoice number does not begin with I, N, V, -
BadInvoiceNumber ==
    LET s == data.invoice_number.v
    IN ~(Len(s) >= 4 /\ s[1] = "I" /\ s[2] = "N" /\ s[3] = "V" /\ s[4] = "-")

\* the normalized subtotal is positive and the tax is more than 20% of it
TaxTooHigh ==
    /\ verdict.normalized_data.subtotal.v > 0
    /\ 100 * verdict.normalized_data.tax.v > 20 * verdict.normalized_data.subtotal.v

\* C11: past the schema and date stages custom_errors holds one entry per
\* violated rule and nothing else: vendor missing iff the vendor is empty
\* after trimming, tax rate too high iff subtotal > 0 and tax / subtotal >
\* 0.20, invalid invoice number iff it does not start with "INV-"
C11_CustomRules ==
    (RunDataReturned /\ verdict.schema_errors = <<>> /\ verdict.date_errors = <<>>) =>
        CustomKinds = (IF VendorEmpty THEN <<"vendor">> ELSE <<>>)
                      \o (IF TaxTooHigh THEN <<"tax_rate">> ELSE <<>>)
                      \o (IF BadInvoiceNumber THEN <<"invoice_number">> ELSE <<>>)

\* a Verdict for a tax above 20% and a bad invoice number, and nothing else
C11_Witness ==
    /\ RunDataReturned
    /\ verdict.schema_errors = <<>> /\ verdict.date_errors = <<>>
    /\ TaxTooHigh /\ BadInvoiceNumber /\ ~VendorEmpty
    /\ CustomKinds = <<"tax_rate", "invoice_number">>

\* a Verdict without tax entry for a tax of exactly 20% of a positive subtotal
C11_AtTwentyPercent ==
    /\ RunDataReturned
    /\ verdict.schema_errors = <<>> /\ verdict.date_errors = <<>>
    /\ verdict.normalized_data.subtotal.v > 0
    /\ 5 * verdict.normalized_data.tax.v = verdict.normalized_data.subtotal.v
    /\ CustomKinds = <<>>

\* a Verdict without tax entry for a negative subtotal
C11_NegativeSubtotal ==
    /\ RunDataReturned
    /\ verdict.schema_errors = <<>> /\ verdict.date_errors = <<>>
    /\ verdict.normalized_data.subtotal.v < 0
    /\ verdict.normalized_data.tax.v > 0
    /\ "tax_rate" \notin Range(CustomKinds)

----------------------------------------------------------------------------
(* Properties of handle_message *)

VerdictKeys ==
    {"status", "valid", "schema_errors", "business_errors", "date_errors", "custom_errors",
     "normalized_data"}

\* the request asks for validation and its body carries an invoice (a
\* non-empty record; null and {} carry none)
CarriesInvoice ==
    /\ message.type = StrV(VALIDATE_INVOICE)
    /\ message.body.t = "dict"
    /\ message.body.v.invoice = Candidate

C8_FaultCaught ==
    (op = "handle_message" /\ message.type = StrV(VALIDATE_INVOICE)
        /\ "run_data" \in Range(calls))
    => /\ raised = "none"
       /\ response # None

====
